---- MODULE Spec2Model ----
(***************************************************************************)
(* Waiting-queue core of the clinic front-desk application:                *)
(* queue_service.py (position ledger, wait-time estimate, notification     *)
(* eligibility), the room workflow and the notification sweep of app.py,   *)
(* on top of the SQLite store opened by database.get_db.                   *)
(*                                                                         *)
(* The queue_entries table is a sequence of rows indexed by the            *)
(* AUTOINCREMENT id; no code path deletes a row.  SQL NULL is the value    *)
(* NULL below.  Timestamps are readings of the clock `now`.                *)
(***************************************************************************)
EXTENDS Integers, Sequences, FiniteSets, Bags, TLC

VARIABLES
    queue_entries,     \* committed rows of table queue_entries (index = id)
    analytics_events,  \* committed rows of table analytics_events (a bag of rows)
    notifications,     \* committed rows of table notifications (a bag of rows)
    patients,          \* ids of the rows of table patients
    rooms,             \* ids of the rows of table rooms with active = 1
    threshold,         \* settings row notification_threshold_patients
    sms_enabled,       \* config.SMS_ENABLED and a Twilio client
    sms_outbox,        \* messages handed to sms_service.send_sms (a bag)
    now,               \* wall clock
    db_lock,           \* connection holding SQLite's write lock, or NoConn
    pc,                \* per request thread: where it stands in its handler
    frame,             \* per request thread: the handler's local variables
    response           \* what the last finished call returned

vars == <<queue_entries, analytics_events, notifications, patients, rooms, threshold,
          sms_enabled, sms_outbox, now, db_lock, pc, frame, response>>

-----------------------------------------------------------------------------
\* Bounds of the model.
MaxEntries == 3        \* rows ever inserted into queue_entries
MaxEvents == 4         \* rows ever inserted into analytics_events
NumPatients == 1       \* rows of table patients
NumRooms == 1          \* rows of table rooms
MaxTime == 1           \* last reading of the clock
NumThreads == 2        \* request threads served at once
MaxSweepEntries == 2   \* rows of queue_entries in the runs of the notification sweep
MaxPosition == 4       \* positions handed to calculate_wait_time: -MaxPosition..MaxPosition
MaxQuote == 2          \* largest quoted wait handed to calculate_wait_time

\* Program constants.
BaseTimePerPatient == 15
BaseWait == 5
DefaultThreshold == 2
AppointmentQuote == 15

\* SQL NULL / Python None.  Every integer column of the model holds values >= 0.
NULL == -1
NoConn == 0

Threads == 1..NumThreads
PatientIds == 1..(NumPatients + 1)     \* patient ids a caller may pass; the last has no row
RoomIds == 1..NumRooms
Outcomes == {"completed", "no_show", "cancelled"}
Tokens == 1..MaxEntries

Max(a, b) == IF a >= b THEN a ELSE b

SetMax(S) == CHOOSE m \in S : \A x \in S : x <= m

Idle == [op |-> "idle"]

-----------------------------------------------------------------------------
\* Reads.

WaitingIds(q) == {i \in DOMAIN q : q[i].status = "waiting"}

WaitingPositions(q) == {q[i].position : i \in WaitingIds(q)}

\* Mutant: MAX(position) over every row, the status filter forgotten.
SelectMaxPosition_AnyStatus(q) ==
    IF DOMAIN q = {} THEN NULL ELSE SetMax({q[i].position : i \in DOMAIN q})

\* SELECT MAX(position) FROM queue_entries WHERE status = "waiting"
SelectMaxPosition(q) ==
    IF WaitingIds(q) = {} THEN NULL ELSE SetMax(WaitingPositions(q))

\* Python's `x or d` on an integer-or-None value.
PyOr(x, d) == IF x = NULL \/ x = 0 THEN d ELSE x

\* next_position = (result['max_pos'] or 0) + 1
NextPosition(q) == PyOr(SelectMaxPosition(q), 0) + 1

\* Mutant: the estimate counts the patient's own slot as one ahead.
calculate_wait_time_ZeroBased(position, quoted_wait) ==
    IF quoted_wait # NULL /\ quoted_wait # 0
    THEN quoted_wait
    ELSE Max(0, position * BaseTimePerPatient + BaseWait)

\* calculate_wait_time(position, quoted_wait)
calculate_wait_time(position, quoted_wait) ==
    IF quoted_wait # NULL /\ quoted_wait # 0
    THEN quoted_wait
    ELSE Max(0, (position - 1) * BaseTimePerPatient + BaseWait)

\* Mutant: the UNIQUE constraint sees only the rows still waiting.
TokensInUse_WaitingOnly(q) == {q[i].token : i \in WaitingIds(q)}

TokensInUse(q) == {q[i].token : i \in DOMAIN q}

\* get_queue_entry_by_token(token): the id of the row the query fetches, or
\* NULL for None.  queue_entries JOIN patients, WHERE token = ? AND status = 'waiting'.
get_queue_entry_by_token(q, patient_rows, token) ==
    LET matches == {i \in DOMAIN q :
                       /\ q[i].patient_id \in patient_rows
                       /\ q[i].token = token
                       /\ q[i].status = "waiting"}
    IN IF matches = {} THEN NULL ELSE CHOOSE i \in matches : TRUE

-----------------------------------------------------------------------------
\* Writes of queue_service.py, as functions of the table.

\* INSERT INTO queue_entries (...): the other columns take the schema defaults.
InsertEntry(q, patient_id, position, token, quoted_wait_minutes, t) ==
    Append(q, [patient_id          |-> patient_id,
               position            |-> position,
               status              |-> "waiting",
               checked_in_at       |-> t,
               called_in_at        |-> NULL,
               completed_at        |-> NULL,
               quoted_wait_minutes |-> quoted_wait_minutes,
               waiting_outside     |-> 0,
               outside_notified    |-> 0,
               token               |-> token,
               room_id             |-> NULL,
               room_entered_at     |-> NULL,
               vitals_taken        |-> 0,
               dr_visited          |-> 0,
               waiting_rx          |-> 0,
               custom_status       |-> NULL])

\* Mutant: the moving-up shift starts one slot too late (position > new_position).
ShiftForMove_OffByOne(q, entry_id, old_position, new_position) ==
    [i \in DOMAIN q |->
        IF new_position < old_position
        THEN IF /\ q[i].position > new_position
                /\ q[i].position < old_position
                /\ q[i].status = "waiting"
                /\ i # entry_id
             THEN [q[i] EXCEPT !.position = @ + 1]
             ELSE q[i]
        ELSE IF /\ q[i].position > old_position
                /\ q[i].position <= new_position
                /\ q[i].status = "waiting"
                /\ i # entry_id
             THEN [q[i] EXCEPT !.position = @ - 1]
             ELSE q[i]]

\* The two shifting UPDATEs of update_queue_position.
ShiftForMove(q, entry_id, old_position, new_position) ==
    [i \in DOMAIN q |->
        IF new_position < old_position
        THEN IF /\ q[i].position >= new_position
                /\ q[i].position < old_position
                /\ q[i].status = "waiting"
                /\ i # entry_id
             THEN [q[i] EXCEPT !.position = @ + 1]
             ELSE q[i]
        ELSE IF /\ q[i].position > old_position
                /\ q[i].position <= new_position
                /\ q[i].status = "waiting"
                /\ i # entry_id
             THEN [q[i] EXCEPT !.position = @ - 1]
             ELSE q[i]]

\* UPDATE queue_entries SET position = ? WHERE id = ?
SetPosition(q, entry_id, new_position) ==
    [q EXCEPT ![entry_id].position = new_position]

\* Mutant: the moved entry is renumbered, the entries in between are not shifted.
MoveWrites_NoShift(q, entry_id, old_position, new_position) ==
    IF entry_id \in DOMAIN q
    THEN SetPosition(q, entry_id, new_position)
    ELSE q

\* The writes of update_queue_position once old_position is known.
MoveWrites(q, entry_id, old_position, new_position) ==
    IF entry_id \in DOMAIN q
    THEN SetPosition(ShiftForMove(q, entry_id, old_position, new_position),
                     entry_id, new_position)
    ELSE ShiftForMove(q, entry_id, old_position, new_position)

\* UPDATE ... SET status = ?, completed_at = ?, called_in_at = COALESCE(called_in_at, ?)
SetTerminal(q, entry_id, status, t) ==
    IF entry_id \in DOMAIN q
    THEN [q EXCEPT ![entry_id].status = status,
                   ![entry_id].completed_at = t,
                   ![entry_id].called_in_at = IF @ = NULL THEN t ELSE @]
    ELSE q

\* Mutant: the closing shift also moves rows that are not waiting.
ShiftAfterRemove_AnyStatus(q, position) ==
    [i \in DOMAIN q |->
        IF q[i].position > position
        THEN [q[i] EXCEPT !.position = @ - 1]
        ELSE q[i]]

\* UPDATE ... SET position = position - 1 WHERE position > ? AND status = 'waiting'
ShiftAfterRemove(q, position) ==
    [i \in DOMAIN q |->
        IF q[i].position > position /\ q[i].status = "waiting"
        THEN [q[i] EXCEPT !.position = @ - 1]
        ELSE q[i]]

\* The writes of remove_from_queue once position is known.
RemoveWrites(q, entry_id, position, status, t) ==
    ShiftAfterRemove(SetTerminal(q, entry_id, status, t), position)

\* A row of analytics_events (id and event_time left out).
Event(event_type, patient_id, queue_entry_id) ==
    [event_type |-> event_type, patient_id |-> patient_id,
     queue_entry_id |-> queue_entry_id]

LogEvent(log, event_type, patient_id, queue_entry_id) ==
    log (+) SetToBag({Event(event_type, patient_id, queue_entry_id)})

-----------------------------------------------------------------------------
Init ==
    /\ queue_entries = <<>>
    /\ analytics_events = EmptyBag
    /\ notifications = EmptyBag
    /\ patients = 1..NumPatients
    /\ rooms = RoomIds
    /\ threshold = DefaultThreshold
    /\ sms_enabled = FALSE
    /\ sms_outbox = EmptyBag
    /\ now = 0
    /\ db_lock = NoConn
    /\ pc = [t \in Threads |-> "idle"]
    /\ frame = [t \in Threads |-> Idle]
    /\ response = Idle

-----------------------------------------------------------------------------
\* queue_service functions run to completion (calls that do not overlap).

\* add_to_queue(patient_id, quoted_wait_minutes=...), token drawn by generate_token.
\* A token already stored violates the UNIQUE constraint: the INSERT raises and
\* nothing is committed.
AddToQueue(patient_id, quoted_wait_minutes, token) ==
    /\ db_lock = NoConn
    /\ BagCardinality(analytics_events) < MaxEvents
    /\ LET next_position == NextPosition(queue_entries)
           entry_id == Len(queue_entries) + 1
       IN IF token \in TokensInUse(queue_entries)
          THEN /\ response' = [op |-> "add_to_queue", raised |-> TRUE]
               /\ UNCHANGED <<queue_entries, analytics_events>>
          ELSE /\ queue_entries' = InsertEntry(queue_entries, patient_id, next_position,
                                               token, quoted_wait_minutes, now)
               /\ analytics_events' =
                      LogEvent(analytics_events, "check_in", patient_id, entry_id)
               /\ response' = [op |-> "add_to_queue", raised |-> FALSE,
                               id |-> entry_id, position |-> next_position,
                               token |-> token,
                               estimated_wait_minutes |->
                                   calculate_wait_time(next_position, quoted_wait_minutes)]
    /\ UNCHANGED <<notifications, patients, rooms, threshold, sms_enabled, sms_outbox, now,
                   db_lock, pc, frame>>

\* Mutant: a new_position outside 1..N is refused before anything is written.
UpdateQueuePosition_Bounded(entry_id, new_position) ==
    /\ db_lock = NoConn
    /\ IF \/ entry_id \notin DOMAIN queue_entries
          \/ new_position \notin 1..Cardinality(WaitingIds(queue_entries))
       THEN /\ response' = [op |-> "update_queue_position", ret |-> FALSE]
            /\ UNCHANGED queue_entries
       ELSE LET old_position == queue_entries[entry_id].position
            IN /\ response' = [op |-> "update_queue_position", ret |-> TRUE]
               /\ IF old_position = new_position
                  THEN UNCHANGED queue_entries
                  ELSE queue_entries' =
                           MoveWrites(queue_entries, entry_id, old_position, new_position)
    /\ UNCHANGED <<analytics_events, notifications, patients, rooms, threshold, sms_enabled,
                   sms_outbox, now, db_lock, pc, frame>>

\* update_queue_position(entry_id, new_position)
UpdateQueuePosition(entry_id, new_position) ==
    /\ db_lock = NoConn
    /\ IF entry_id \notin DOMAIN queue_entries
       THEN /\ response' = [op |-> "update_queue_position", ret |-> FALSE]
            /\ UNCHANGED queue_entries
       ELSE LET old_position == queue_entries[entry_id].position
            IN /\ response' = [op |-> "update_queue_position", ret |-> TRUE]
               /\ IF old_position = new_position
                  THEN UNCHANGED queue_entries
                  ELSE queue_entries' =
                           MoveWrites(queue_entries, entry_id, old_position, new_position)
    /\ UNCHANGED <<analytics_events, notifications, patients, rooms, threshold, sms_enabled,
                   sms_outbox, now, db_lock, pc, frame>>

\* Mutant: the row is looked up after the event is logged; a missing row still
\* leaves its event behind and the call reports success.
RemoveFromQueue_LogsFirst(entry_id, status) ==
    /\ db_lock = NoConn
    /\ BagCardinality(analytics_events) < MaxEvents
    /\ IF entry_id \notin DOMAIN queue_entries
       THEN /\ analytics_events' = LogEvent(analytics_events, status, NULL, entry_id)
            /\ UNCHANGED queue_entries
       ELSE /\ queue_entries' =
                   RemoveWrites(queue_entries, entry_id, queue_entries[entry_id].position,
                                status, now)
            /\ analytics_events' =
                   LogEvent(analytics_events, status, queue_entries[entry_id].patient_id,
                            entry_id)
    /\ response' = [op |-> "remove_from_queue", ret |-> TRUE]
    /\ UNCHANGED <<notifications, patients, rooms, threshold, sms_enabled, sms_outbox, now,
                   db_lock, pc, frame>>

\* remove_from_queue(entry_id, status)
RemoveFromQueue(entry_id, status) ==
    /\ db_lock = NoConn
    /\ IF entry_id \notin DOMAIN queue_entries
       THEN /\ response' = [op |-> "remove_from_queue", ret |-> FALSE]
            /\ UNCHANGED <<queue_entries, analytics_events>>
       ELSE /\ BagCardinality(analytics_events) < MaxEvents
            /\ LET position == queue_entries[entry_id].position
                   patient_id == queue_entries[entry_id].patient_id
               IN /\ queue_entries' =
                         RemoveWrites(queue_entries, entry_id, position, status, now)
                  /\ analytics_events' =
                         LogEvent(analytics_events, status, patient_id, entry_id)
            /\ response' = [op |-> "remove_from_queue", ret |-> TRUE]
    /\ UNCHANGED <<notifications, patients, rooms, threshold, sms_enabled, sms_outbox, now,
                   db_lock, pc, frame>>

\* add_to_queue when the INSERT INTO analytics_events raises (sqlite3.Error): the
\* exception leaves the function before db.commit(), the connection is dropped
\* and the INSERT INTO queue_entries before it is rolled back.
AddToQueueLogFails(patient_id, quoted_wait_minutes, token) ==
    /\ db_lock = NoConn
    /\ token \notin TokensInUse(queue_entries)
    /\ response' = [op |-> "add_to_queue", raised |-> TRUE]
    /\ UNCHANGED <<queue_entries, analytics_events, notifications, patients, rooms,
                   threshold, sms_enabled, sms_outbox, now, db_lock, pc, frame>>

\* remove_from_queue when the INSERT INTO analytics_events raises: the two
\* UPDATEs before it are rolled back in the same way.
RemoveFromQueueLogFails(entry_id, status) ==
    /\ db_lock = NoConn
    /\ entry_id \in DOMAIN queue_entries
    /\ response' = [op |-> "remove_from_queue", raised |-> TRUE]
    /\ UNCHANGED <<queue_entries, analytics_events, notifications, patients, rooms,
                   threshold, sms_enabled, sms_outbox, now, db_lock, pc, frame>>

\* A call of calculate_wait_time(position, quoted_wait) on its own.
CalculateWaitTime(position, quoted_wait) ==
    /\ response' = [op |-> "calculate_wait_time", position |-> position,
                    quoted_wait |-> quoted_wait,
                    ret |-> calculate_wait_time(position, quoted_wait)]
    /\ UNCHANGED <<queue_entries, analytics_events, notifications, patients, rooms,
                   threshold, sms_enabled, sms_outbox, now, db_lock, pc, frame>>

\* mark_called_in(entry_id)
MarkCalledIn(entry_id) ==
    /\ db_lock = NoConn
    /\ queue_entries' =
           IF entry_id \in DOMAIN queue_entries
           THEN [queue_entries EXCEPT ![entry_id].called_in_at = now]
           ELSE queue_entries
    /\ response' = [op |-> "mark_called_in"]
    /\ UNCHANGED <<analytics_events, notifications, patients, rooms, threshold, sms_enabled,
                   sms_outbox, now, db_lock, pc, frame>>

\* Mutant: stepping back outside re-arms the notification.
SetWaitingOutside_Rearm(q, entry_id, waiting_outside) ==
    IF entry_id \in DOMAIN q
    THEN [q EXCEPT ![entry_id].waiting_outside = IF waiting_outside THEN 1 ELSE 0,
                   ![entry_id].outside_notified = IF waiting_outside THEN 0 ELSE @]
    ELSE q

\* Mutant: the UPDATE has lost its WHERE clause.
SetWaitingOutside_NoWhere(q, entry_id, waiting_outside) ==
    [i \in DOMAIN q |-> [q[i] EXCEPT !.waiting_outside = IF waiting_outside THEN 1 ELSE 0]]

\* UPDATE queue_entries SET waiting_outside = ? WHERE id = ?
SetWaitingOutside(q, entry_id, waiting_outside) ==
    IF entry_id \in DOMAIN q
    THEN [q EXCEPT ![entry_id].waiting_outside = IF waiting_outside THEN 1 ELSE 0]
    ELSE q

\* update_waiting_outside(entry_id, waiting_outside)
UpdateWaitingOutside(entry_id, waiting_outside) ==
    /\ db_lock = NoConn
    /\ queue_entries' = SetWaitingOutside(queue_entries, entry_id, waiting_outside)
    /\ response' = [op |-> "update_waiting_outside", ret |-> TRUE]
    /\ UNCHANGED <<analytics_events, notifications, patients, rooms, threshold, sms_enabled,
                   sms_outbox, now, db_lock, pc, frame>>

-----------------------------------------------------------------------------
\* The reception endpoints of app.py that call move and remove.  Each calls the
\* queue_service function, drops what it returns and answers success.

\* api_reorder_queue: POST /api/queue/reorder
ApiReorderQueue(entry_id, new_position) ==
    /\ db_lock = NoConn
    /\ queue_entries' =
           IF entry_id \notin DOMAIN queue_entries
           THEN queue_entries
           ELSE IF queue_entries[entry_id].position = new_position
           THEN queue_entries
           ELSE MoveWrites(queue_entries, entry_id, queue_entries[entry_id].position,
                           new_position)
    /\ response' = [op |-> "api_reorder_queue", success |-> TRUE, code |-> 200]
    /\ UNCHANGED <<analytics_events, notifications, patients, rooms, threshold, sms_enabled,
                   sms_outbox, now, db_lock, pc, frame>>

\* What remove_from_queue(entry_id, status) writes, for the two endpoints below.
ApiRemove(op, entry_id, status) ==
    /\ db_lock = NoConn
    /\ IF entry_id \notin DOMAIN queue_entries
       THEN UNCHANGED <<queue_entries, analytics_events>>
       ELSE /\ BagCardinality(analytics_events) < MaxEvents
            /\ queue_entries' =
                   RemoveWrites(queue_entries, entry_id, queue_entries[entry_id].position,
                                status, now)
            /\ analytics_events' =
                   LogEvent(analytics_events, status, queue_entries[entry_id].patient_id,
                            entry_id)
    /\ response' = [op |-> op, success |-> TRUE, code |-> 200]
    /\ UNCHANGED <<notifications, patients, rooms, threshold, sms_enabled, sms_outbox, now,
                   db_lock, pc, frame>>

\* api_complete_queue_entry: POST /api/queue/<entry_id>/complete
ApiCompleteQueueEntry(entry_id) == ApiRemove("api_complete_queue_entry", entry_id, "completed")

\* api_no_show: POST /api/queue/<entry_id>/no-show
ApiNoShow(entry_id) == ApiRemove("api_no_show", entry_id, "no_show")

-----------------------------------------------------------------------------
\* The check-in endpoint of app.py.

\* Mutant: the existing-entry check compares the entry id with the patient id.
HasWaitingEntry_ByEntryId(q, patient_id) ==
    \E i \in DOMAIN q : i = patient_id /\ q[i].status = "waiting"

\* SELECT id FROM queue_entries WHERE patient_id = ? AND status = 'waiting'
HasWaitingEntry(q, patient_id) ==
    \E i \in DOMAIN q : q[i].patient_id = patient_id /\ q[i].status = "waiting"

\* The message send_checkin_confirmation hands to send_sms, with what it returned.
CheckinSms(entry_id, patient_id, position, sms_status) ==
    [queue_entry_id |-> entry_id, to_patient |-> patient_id, kind |-> "checkin",
     position |-> position, status |-> sms_status]

\* api_checkin: POST /api/checkin.  given_patient_id is data.get('patient_id'),
\* NULL when the request has none (a patients row is then inserted and
\* committed first).  Any exception ends in the handler's 500 answer; what was
\* committed before it stays.
ApiCheckin(given_patient_id, quoted_wait_minutes, token, sms_status) ==
    /\ db_lock = NoConn
    /\ sms_status \in IF sms_enabled THEN {"sent", "failed"} ELSE {"mock_sent"}
    /\ given_patient_id = NULL => Cardinality(patients) <= NumPatients
    /\ LET patient_id == IF given_patient_id = NULL
                         THEN Cardinality(patients) + 1
                         ELSE given_patient_id
           entry_id == Len(queue_entries) + 1
           next_position == NextPosition(queue_entries)
       IN /\ patients' = patients \cup (IF given_patient_id = NULL THEN {patient_id} ELSE {})
          /\ IF HasWaitingEntry(queue_entries, patient_id)
             THEN /\ response' = [op |-> "api_checkin", success |-> FALSE, code |-> 400]
                  /\ UNCHANGED <<queue_entries, analytics_events, notifications, sms_outbox>>
             ELSE IF token \in TokensInUse(queue_entries)
             THEN /\ response' = [op |-> "api_checkin", success |-> FALSE, code |-> 500]
                  /\ UNCHANGED <<queue_entries, analytics_events, notifications, sms_outbox>>
             ELSE /\ BagCardinality(analytics_events) < MaxEvents
                  /\ queue_entries' = InsertEntry(queue_entries, patient_id, next_position,
                                                  token, quoted_wait_minutes, now)
                  /\ analytics_events' =
                         LogEvent(analytics_events, "check_in", patient_id, entry_id)
                  /\ IF patient_id \notin patients'
                     THEN /\ response' = [op |-> "api_checkin", success |-> FALSE,
                                          code |-> 500]
                          /\ UNCHANGED <<notifications, sms_outbox>>
                     ELSE /\ sms_outbox' = sms_outbox (+) SetToBag({
                                 CheckinSms(entry_id, patient_id, next_position, sms_status)})
                          /\ notifications' = notifications (+) SetToBag({
                                 [queue_entry_id |-> entry_id,
                                  notification_type |-> "checkin", status |-> sms_status]})
                          /\ response' = [op |-> "api_checkin", success |-> TRUE,
                                          code |-> 200, id |-> entry_id,
                                          position |-> next_position, token |-> token,
                                          sms_sent |-> sms_status \in {"sent", "mock_sent"}]
    /\ UNCHANGED <<rooms, threshold, sms_enabled, now, db_lock, pc, frame>>

\* api_checkin_appointment: POST /api/appointments/<id>/checkin for an
\* appointment of patient_id.  The SELECT joins patients: an appointment whose
\* patient has no row is answered 404.  A patient already waiting is answered
\* success 'Already in queue'.
ApiCheckinAppointment(patient_id, token) ==
    /\ db_lock = NoConn
    /\ LET entry_id == Len(queue_entries) + 1
           next_position == NextPosition(queue_entries)
       IN IF patient_id \notin patients
          THEN /\ response' = [op |-> "api_checkin_appointment", success |-> FALSE,
                               code |-> 404]
               /\ UNCHANGED <<queue_entries, analytics_events>>
          ELSE IF HasWaitingEntry(queue_entries, patient_id)
          THEN /\ response' = [op |-> "api_checkin_appointment", success |-> TRUE,
                               code |-> 200, message |-> "Already in queue"]
               /\ UNCHANGED <<queue_entries, analytics_events>>
          ELSE IF token \in TokensInUse(queue_entries)
          THEN /\ response' = [op |-> "api_checkin_appointment", success |-> FALSE,
                               code |-> 500]
               /\ UNCHANGED <<queue_entries, analytics_events>>
          ELSE /\ BagCardinality(analytics_events) < MaxEvents
               /\ queue_entries' = InsertEntry(queue_entries, patient_id, next_position,
                                               token, AppointmentQuote, now)
               /\ analytics_events' =
                      LogEvent(analytics_events, "check_in", patient_id, entry_id)
               /\ response' = [op |-> "api_checkin_appointment", success |-> TRUE,
                               code |-> 200, message |-> "Checked in", id |-> entry_id]
    /\ UNCHANGED <<notifications, patients, rooms, threshold, sms_enabled, sms_outbox, now,
                   db_lock, pc, frame>>

\* api_checkin statement by statement, for a patient_id the request carries.
\* First the SELECT for a waiting entry of the patient, on the handler's own
\* connection, which is then closed.
CheckinCheck(t, patient_id) ==
    /\ pc[t] = "idle"
    /\ IF HasWaitingEntry(queue_entries, patient_id)
       THEN /\ response' = [op |-> "api_checkin", success |-> FALSE, code |-> 400]
            /\ UNCHANGED <<pc, frame>>
       ELSE /\ pc' = [pc EXCEPT ![t] = "checkin_add"]
            /\ frame' = [frame EXCEPT ![t] = [op |-> "api_checkin",
                                              patient_id |-> patient_id]]
            /\ UNCHANGED response
    /\ UNCHANGED <<queue_entries, analytics_events, notifications, patients, rooms,
                   threshold, sms_enabled, sms_outbox, now, db_lock>>

\* Then queue_service.add_to_queue on a connection of its own, the confirmation
\* SMS and the notifications row.
CheckinAdd(t, token, sms_status) ==
    /\ pc[t] = "checkin_add"
    /\ db_lock = NoConn
    /\ sms_status \in IF sms_enabled THEN {"sent", "failed"} ELSE {"mock_sent"}
    /\ LET patient_id == frame[t].patient_id
           entry_id == Len(queue_entries) + 1
           next_position == NextPosition(queue_entries)
       IN IF token \in TokensInUse(queue_entries)
          THEN /\ response' = [op |-> "api_checkin", success |-> FALSE, code |-> 500]
               /\ UNCHANGED <<queue_entries, analytics_events, notifications, sms_outbox>>
          ELSE /\ BagCardinality(analytics_events) < MaxEvents
               /\ queue_entries' = InsertEntry(queue_entries, patient_id, next_position,
                                               token, NULL, now)
               /\ analytics_events' =
                      LogEvent(analytics_events, "check_in", patient_id, entry_id)
               /\ IF patient_id \notin patients
                  THEN /\ response' = [op |-> "api_checkin", success |-> FALSE,
                                       code |-> 500]
                       /\ UNCHANGED <<notifications, sms_outbox>>
                  ELSE /\ sms_outbox' = sms_outbox (+) SetToBag({
                              CheckinSms(entry_id, patient_id, next_position, sms_status)})
                       /\ notifications' = notifications (+) SetToBag({
                              [queue_entry_id |-> entry_id,
                               notification_type |-> "checkin", status |-> sms_status]})
                       /\ response' = [op |-> "api_checkin", success |-> TRUE,
                                       code |-> 200, id |-> entry_id,
                                       position |-> next_position, token |-> token,
                                       sms_sent |-> sms_status \in {"sent", "mock_sent"}]
    /\ pc' = [pc EXCEPT ![t] = "idle"]
    /\ frame' = [frame EXCEPT ![t] = Idle]
    /\ UNCHANGED <<patients, rooms, threshold, sms_enabled, now, db_lock>>

-----------------------------------------------------------------------------
\* The room workflow of app.py.

\* The reset back to 'waiting' shared by api_unassign_room and api_delete_room.
ResetToWaiting(row) ==
    [row EXCEPT !.room_id = NULL,
                !.room_entered_at = NULL,
                !.status = "waiting",
                !.called_in_at = NULL,
                !.vitals_taken = 0,
                !.dr_visited = 0,
                !.waiting_rx = 0,
                !.custom_status = NULL]

\* api_assign_room: PUT /api/queue/<entry_id>/assign-room
ApiAssignRoom(entry_id, room_id) ==
    /\ db_lock = NoConn
    /\ queue_entries' =
           IF entry_id \in DOMAIN queue_entries
           THEN [queue_entries EXCEPT
                    ![entry_id].room_id = room_id,
                    ![entry_id].room_entered_at = now,
                    ![entry_id].status = "serving",
                    ![entry_id].called_in_at = IF @ = NULL THEN now ELSE @]
           ELSE queue_entries
    /\ response' = [op |-> "api_assign_room", success |-> TRUE]
    /\ UNCHANGED <<analytics_events, notifications, patients, rooms, threshold, sms_enabled,
                   sms_outbox, now, db_lock, pc, frame>>

\* api_unassign_room: PUT /api/queue/<entry_id>/unassign-room, action 'complete'
\* or anything else ('waiting').
ApiUnassignRoom(entry_id, action) ==
    /\ db_lock = NoConn
    /\ queue_entries' =
           IF entry_id \notin DOMAIN queue_entries
           THEN queue_entries
           ELSE IF action = "complete"
                THEN [queue_entries EXCEPT ![entry_id].room_id = NULL,
                                           ![entry_id].status = "completed",
                                           ![entry_id].completed_at = now]
                ELSE [queue_entries EXCEPT ![entry_id] = ResetToWaiting(@)]
    /\ response' = [op |-> "api_unassign_room", success |-> TRUE]
    /\ UNCHANGED <<analytics_events, notifications, patients, rooms, threshold, sms_enabled,
                   sms_outbox, now, db_lock, pc, frame>>

\* api_delete_room: DELETE /api/rooms/<room_id>
ApiDeleteRoom(room_id) ==
    /\ db_lock = NoConn
    /\ queue_entries' =
           [i \in DOMAIN queue_entries |->
               IF queue_entries[i].room_id = room_id
               THEN IF queue_entries[i].status = "serving"
                    THEN ResetToWaiting(queue_entries[i])
                    ELSE [queue_entries[i] EXCEPT !.room_id = NULL]
               ELSE queue_entries[i]]
    /\ rooms' = rooms \ {room_id}
    /\ response' = [op |-> "api_delete_room", success |-> TRUE]
    /\ UNCHANGED <<analytics_events, notifications, patients, threshold, sms_enabled,
                   sms_outbox, now, db_lock, pc, frame>>

-----------------------------------------------------------------------------
\* The same queue_service functions statement by statement, each call on its own
\* connection (get_db), for calls that overlap.  A SELECT reads the committed
\* tables.  The first INSERT/UPDATE of a connection takes SQLite's write lock, its
\* writes stay private to the connection, and db.commit() publishes them and frees
\* the lock.  A connection that cannot take the lock waits, and raises
\* "database is locked" when its busy timeout runs out.

Quiet == \A t \in Threads : pc[t] = "idle"

InFlight(op) == Cardinality({t \in Threads : pc[t] # "idle" /\ frame[t].op = op})

\* add_to_queue up to next_position = ...
AddSelect(t, patient_id, quoted_wait_minutes) ==
    /\ pc[t] = "idle"
    /\ Len(queue_entries) + InFlight("add_to_queue") < MaxEntries
    /\ BagCardinality(analytics_events) + InFlight("add_to_queue")
           + InFlight("remove_from_queue") < MaxEvents
    /\ frame' = [frame EXCEPT ![t] =
                    [op |-> "add_to_queue", patient_id |-> patient_id,
                     quoted_wait_minutes |-> quoted_wait_minutes,
                     next_position |-> NextPosition(queue_entries)]]
    /\ pc' = [pc EXCEPT ![t] = "add_insert"]
    /\ UNCHANGED <<queue_entries, analytics_events, notifications, patients, rooms,
                   threshold, sms_enabled, sms_outbox, now, db_lock, response>>

\* add_to_queue: generate_token and the two INSERTs
AddInsert(t, token) ==
    /\ pc[t] = "add_insert"
    /\ db_lock = NoConn
    /\ IF token \in TokensInUse(queue_entries)
       THEN /\ pc' = [pc EXCEPT ![t] = "idle"]
            /\ frame' = [frame EXCEPT ![t] = Idle]
            /\ response' = [op |-> "add_to_queue", raised |-> TRUE]
            /\ UNCHANGED db_lock
       ELSE /\ db_lock' = t
            /\ pc' = [pc EXCEPT ![t] = "add_commit"]
            /\ frame' = [frame EXCEPT ![t] =
                  [op |-> "add_to_queue",
                   txn_queue_entries |->
                       InsertEntry(queue_entries, frame[t].patient_id,
                                   frame[t].next_position, token,
                                   frame[t].quoted_wait_minutes, now),
                   txn_analytics_events |->
                       LogEvent(analytics_events, "check_in", frame[t].patient_id,
                                Len(queue_entries) + 1),
                   ret |-> [op |-> "add_to_queue", raised |-> FALSE,
                            id |-> Len(queue_entries) + 1,
                            position |-> frame[t].next_position,
                            token |-> token,
                            estimated_wait_minutes |->
                                calculate_wait_time(frame[t].next_position,
                                                    frame[t].quoted_wait_minutes)]]]
            /\ UNCHANGED response
    /\ UNCHANGED <<queue_entries, analytics_events, notifications, patients, rooms,
                   threshold, sms_enabled, sms_outbox, now>>

\* update_queue_position up to the comparison of old and new position
MoveSelect(t, entry_id, new_position) ==
    /\ pc[t] = "idle"
    /\ IF entry_id \notin DOMAIN queue_entries
       THEN /\ response' = [op |-> "update_queue_position", ret |-> FALSE]
            /\ UNCHANGED <<pc, frame>>
       ELSE IF queue_entries[entry_id].position = new_position
            THEN /\ response' = [op |-> "update_queue_position", ret |-> TRUE]
                 /\ UNCHANGED <<pc, frame>>
            ELSE /\ frame' = [frame EXCEPT ![t] =
                        [op |-> "update_queue_position", entry_id |-> entry_id,
                         new_position |-> new_position,
                         old_position |-> queue_entries[entry_id].position]]
                 /\ pc' = [pc EXCEPT ![t] = "move_update"]
                 /\ UNCHANGED response
    /\ UNCHANGED <<queue_entries, analytics_events, notifications, patients, rooms,
                   threshold, sms_enabled, sms_outbox, now, db_lock>>

\* update_queue_position: the shifting UPDATE and the UPDATE of the entry itself
MoveUpdate(t) ==
    /\ pc[t] = "move_update"
    /\ db_lock = NoConn
    /\ db_lock' = t
    /\ pc' = [pc EXCEPT ![t] = "move_commit"]
    /\ frame' = [frame EXCEPT ![t] =
          [op |-> "update_queue_position",
           txn_queue_entries |->
               MoveWrites(queue_entries, frame[t].entry_id, frame[t].old_position,
                          frame[t].new_position),
           txn_analytics_events |-> analytics_events,
           ret |-> [op |-> "update_queue_position", ret |-> TRUE]]]
    /\ UNCHANGED <<queue_entries, analytics_events, notifications, patients, rooms,
                   threshold, sms_enabled, sms_outbox, now, response>>

\* remove_from_queue up to patient_id = result['patient_id']
RemoveSelect(t, entry_id, status) ==
    /\ pc[t] = "idle"
    /\ IF entry_id \notin DOMAIN queue_entries
       THEN /\ response' = [op |-> "remove_from_queue", ret |-> FALSE]
            /\ UNCHANGED <<pc, frame>>
       ELSE /\ BagCardinality(analytics_events) + InFlight("add_to_queue")
                   + InFlight("remove_from_queue") < MaxEvents
            /\ frame' = [frame EXCEPT ![t] =
                   [op |-> "remove_from_queue", entry_id |-> entry_id,
                    status |-> status,
                    position |-> queue_entries[entry_id].position,
                    patient_id |-> queue_entries[entry_id].patient_id]]
            /\ pc' = [pc EXCEPT ![t] = "remove_update"]
            /\ UNCHANGED response
    /\ UNCHANGED <<queue_entries, analytics_events, notifications, patients, rooms,
                   threshold, sms_enabled, sms_outbox, now, db_lock>>

\* remove_from_queue: the two UPDATEs and the INSERT INTO analytics_events
RemoveUpdate(t) ==
    /\ pc[t] = "remove_update"
    /\ db_lock = NoConn
    /\ db_lock' = t
    /\ pc' = [pc EXCEPT ![t] = "remove_commit"]
    /\ frame' = [frame EXCEPT ![t] =
          [op |-> "remove_from_queue",
           txn_queue_entries |->
               RemoveWrites(queue_entries, frame[t].entry_id, frame[t].position,
                            frame[t].status, now),
           txn_analytics_events |->
               LogEvent(analytics_events, frame[t].status, frame[t].patient_id,
                        frame[t].entry_id),
           ret |-> [op |-> "remove_from_queue", ret |-> TRUE]]]
    /\ UNCHANGED <<queue_entries, analytics_events, notifications, patients, rooms,
                   threshold, sms_enabled, sms_outbox, now, response>>

\* db.commit(); db.close(); return ...
Commit(t) ==
    /\ pc[t] \in {"add_commit", "move_commit", "remove_commit"}
    /\ db_lock = t
    /\ queue_entries' = frame[t].txn_queue_entries
    /\ analytics_events' = frame[t].txn_analytics_events
    /\ response' = frame[t].ret
    /\ db_lock' = NoConn
    /\ pc' = [pc EXCEPT ![t] = "idle"]
    /\ frame' = [frame EXCEPT ![t] = Idle]
    /\ UNCHANGED <<notifications, patients, rooms, threshold, sms_enabled, sms_outbox, now>>

\* sqlite3.OperationalError: database is locked.  Nothing was written; the
\* exception leaves the function.
Locked(t) ==
    /\ pc[t] \in {"add_insert", "move_update", "remove_update"}
    /\ db_lock \notin {NoConn, t}
    /\ response' = [op |-> frame[t].op, raised |-> TRUE]
    /\ pc' = [pc EXCEPT ![t] = "idle"]
    /\ frame' = [frame EXCEPT ![t] = Idle]
    /\ UNCHANGED <<queue_entries, analytics_events, notifications, patients, rooms,
                   threshold, sms_enabled, sms_outbox, now, db_lock>>

\* api_update_queue_entry: PATCH /api/queue/<entry_id>, statement by statement.
\* quoted_wait_minutes and waiting_outside are the fields of the request, NULL
\* for a field the request does not carry.

\* UPDATE queue_entries SET quoted_wait_minutes = ? WHERE id = ?
SetQuotedWait(q, entry_id, quoted_wait_minutes) ==
    IF entry_id \in DOMAIN q
    THEN [q EXCEPT ![entry_id].quoted_wait_minutes = quoted_wait_minutes]
    ELSE q

\* The answer of the handler, with the request it answers.
UpdateEntryAnswer(request, success) ==
    [op |-> "api_update_queue_entry", success |-> success,
     code |-> IF success THEN 200 ELSE 500,
     entry_id |-> request.entry_id,
     quoted_wait_minutes |-> request.quoted_wait_minutes,
     waiting_outside |-> request.waiting_outside]

\* db = get_db() and the UPDATE of quoted_wait_minutes on it, which begins a
\* transaction and takes the write lock; the lock held by another connection
\* until the busy timeout ends in "database is locked" and the 500 answer.
UpdateEntryWrite(t, entry_id, quoted_wait_minutes, waiting_outside) ==
    /\ pc[t] = "idle"
    /\ LET request == [op |-> "api_update_queue_entry", entry_id |-> entry_id,
                       quoted_wait_minutes |-> quoted_wait_minutes,
                       waiting_outside |-> waiting_outside]
       IN IF quoted_wait_minutes = NULL
          THEN /\ frame' = [frame EXCEPT ![t] = request]
               /\ pc' = [pc EXCEPT ![t] = "update_nested"]
               /\ UNCHANGED <<db_lock, response>>
          ELSE \/ /\ db_lock = NoConn
                  /\ db_lock' = t
                  /\ frame' = [frame EXCEPT ![t] = request]
                  /\ pc' = [pc EXCEPT ![t] = "update_nested"]
                  /\ UNCHANGED response
               \/ /\ db_lock # NoConn
                  /\ response' = UpdateEntryAnswer(request, FALSE)
                  /\ UNCHANGED <<db_lock, frame, pc>>
    /\ UNCHANGED <<queue_entries, analytics_events, notifications, patients, rooms,
                   threshold, sms_enabled, sms_outbox, now>>

\* if 'waiting_outside' in data: queue_service.update_waiting_outside(...), which
\* opens a second connection, writes and commits.  While a connection holds the
\* write lock (the handler's own does, once it has written) the UPDATE waits for
\* the busy timeout and raises "database is locked": the handler answers 500 and
\* its own connection is dropped with its transaction rolled back.
UpdateEntryNested(t) ==
    /\ pc[t] = "update_nested"
    /\ IF frame[t].waiting_outside = NULL
       THEN /\ pc' = [pc EXCEPT ![t] = "update_commit"]
            /\ UNCHANGED <<queue_entries, db_lock, frame, response>>
       ELSE \/ /\ db_lock = NoConn
               /\ queue_entries' = SetWaitingOutside(queue_entries, frame[t].entry_id,
                                                     frame[t].waiting_outside = 1)
               /\ pc' = [pc EXCEPT ![t] = "update_commit"]
               /\ UNCHANGED <<db_lock, frame, response>>
            \/ /\ db_lock # NoConn
               /\ response' = UpdateEntryAnswer(frame[t], FALSE)
               /\ db_lock' = IF db_lock = t THEN NoConn ELSE db_lock
               /\ pc' = [pc EXCEPT ![t] = "idle"]
               /\ frame' = [frame EXCEPT ![t] = Idle]
               /\ UNCHANGED queue_entries
    /\ UNCHANGED <<analytics_events, notifications, patients, rooms, threshold,
                   sms_enabled, sms_outbox, now>>

\* db.commit(); db.close(); return jsonify({'success': True})
UpdateEntryCommit(t) ==
    /\ pc[t] = "update_commit"
    /\ queue_entries' =
           IF frame[t].quoted_wait_minutes = NULL
           THEN queue_entries
           ELSE SetQuotedWait(queue_entries, frame[t].entry_id, frame[t].quoted_wait_minutes)
    /\ db_lock' = IF db_lock = t THEN NoConn ELSE db_lock
    /\ response' = UpdateEntryAnswer(frame[t], TRUE)
    /\ pc' = [pc EXCEPT ![t] = "idle"]
    /\ frame' = [frame EXCEPT ![t] = Idle]
    /\ UNCHANGED <<analytics_events, notifications, patients, rooms, threshold,
                   sms_enabled, sms_outbox, now>>

-----------------------------------------------------------------------------
\* The notification sweep: check_and_send_notifications of app.py, statement by
\* statement (other requests are served between its statements).

\* Mutant: the query has lost its condition on outside_notified.
EligibleIds_IgnoresNotified(q, patient_rows, th) ==
    {i \in DOMAIN q :
        /\ q[i].patient_id \in patient_rows
        /\ q[i].status = "waiting"
        /\ q[i].waiting_outside = 1
        /\ q[i].position <= th}

\* The ids of the rows get_patients_needing_notification selects: queue_entries
\* JOIN patients, WHERE status, waiting_outside, outside_notified, position.
EligibleIds(q, patient_rows, th) ==
    {i \in DOMAIN q :
        /\ q[i].patient_id \in patient_rows
        /\ q[i].status = "waiting"
        /\ q[i].waiting_outside = 1
        /\ q[i].outside_notified = 0
        /\ q[i].position <= th}

\* The rows as the sweep keeps them: dict(row) for each row selected.
RowOf(q, i) == [id |-> i, position |-> q[i].position, patient_id |-> q[i].patient_id]

\* Every order in which the SELECT (which has no ORDER BY) may return the rows.
Orderings(S) ==
    {f \in [1..Cardinality(S) -> S] : \A a, b \in 1..Cardinality(S) : f[a] = f[b] => a = b}

\* UPDATE queue_entries SET outside_notified = 1 WHERE id = ?
SetNotified(q, entry_id) ==
    IF entry_id \in DOMAIN q
    THEN [q EXCEPT ![entry_id].outside_notified = 1]
    ELSE q

\* Mutant: the entry is marked only when the message went out.
MarkAfterSend_OnlyIfSent(q, entry_id, sms_status) ==
    IF sms_status \in {"sent", "mock_sent"} THEN SetNotified(q, entry_id) ELSE q

\* What the loop body does with the entry after the send: mark_notified(patient['id']),
\* whatever send_sms returned.
MarkAfterSend(q, entry_id, sms_status) == SetNotified(q, entry_id)

\* What send_sms may return.
SmsStatuses == IF sms_enabled THEN {"sent", "failed"} ELSE {"mock_sent"}

\* The message send_ready_notification / send_almost_ready_notification hands to
\* send_sms for a selected row, with what send_sms returned.
SmsFor(patient, sms_status) ==
    [queue_entry_id |-> patient.id,
     to_patient |-> patient.patient_id,
     kind |-> IF patient.position - 1 = 0 THEN "ready" ELSE "almost_ready",
     patients_ahead |-> patient.position - 1,
     status |-> sms_status]

\* The row the loop body inserts into notifications.
NotificationFor(patient) ==
    [queue_entry_id |-> patient.id, notification_type |-> "ready_soon", status |-> "sent"]

\* check_and_send_notifications run to completion: the rows selected, then for
\* each of them in turn the send, mark_notified and the notifications row.
\* `results` gives what send_sms returns for each row.
RECURSIVE SweepMarks(_, _, _, _)
SweepMarks(q, rows, results, k) ==
    IF k > Len(rows) THEN q
    ELSE SweepMarks(MarkAfterSend(q, rows[k].id, results[k]), rows, results, k + 1)

CheckAndSendNotifications(order, results) ==
    /\ db_lock = NoConn
    /\ order \in Orderings(EligibleIds(queue_entries, patients, threshold))
    /\ results \in [DOMAIN order -> SmsStatuses]
    /\ LET rows == [k \in DOMAIN order |-> RowOf(queue_entries, order[k])]
       IN /\ sms_outbox' = sms_outbox (+)
                 SetToBag({SmsFor(rows[k], results[k]) : k \in DOMAIN rows})
          /\ queue_entries' = SweepMarks(queue_entries, rows, results, 1)
          /\ notifications' = notifications (+)
                 SetToBag({NotificationFor(rows[k]) : k \in DOMAIN rows})
    /\ response' = [op |-> "check_and_send_notifications"]
    /\ UNCHANGED <<analytics_events, patients, rooms, threshold, sms_enabled, now,
                   db_lock, pc, frame>>

\* patients = queue_service.get_patients_needing_notification()
NotifySelect(t, order) ==
    /\ pc[t] = "idle"
    /\ db_lock = NoConn
    /\ order \in Orderings(EligibleIds(queue_entries, patients, threshold))
    /\ IF order = <<>>
       THEN /\ response' = [op |-> "check_and_send_notifications"]
            /\ UNCHANGED <<pc, frame>>
       ELSE /\ frame' = [frame EXCEPT ![t] =
                   [op |-> "check_and_send_notifications",
                    patients |-> [k \in DOMAIN order |-> RowOf(queue_entries, order[k])],
                    i |-> 1, sms_status |-> NULL]]
            /\ pc' = [pc EXCEPT ![t] = "notify_send"]
            /\ UNCHANGED response
    /\ UNCHANGED <<queue_entries, analytics_events, notifications, patients, rooms,
                   threshold, sms_enabled, sms_outbox, now, db_lock>>

\* send_ready_notification / send_almost_ready_notification
NotifySend(t, sms_status) ==
    /\ pc[t] = "notify_send"
    /\ sms_status \in SmsStatuses
    /\ sms_outbox' = sms_outbox (+) SetToBag({SmsFor(frame[t].patients[frame[t].i], sms_status)})
    /\ frame' = [frame EXCEPT ![t].sms_status = sms_status]
    /\ pc' = [pc EXCEPT ![t] = "notify_mark"]
    /\ UNCHANGED <<queue_entries, analytics_events, notifications, patients, rooms,
                   threshold, sms_enabled, now, db_lock, response>>

\* queue_service.mark_notified(patient['id'])
NotifyMark(t) ==
    /\ pc[t] = "notify_mark"
    /\ db_lock = NoConn
    /\ queue_entries' = MarkAfterSend(queue_entries, frame[t].patients[frame[t].i].id,
                                      frame[t].sms_status)
    /\ pc' = [pc EXCEPT ![t] = "notify_log"]
    /\ UNCHANGED <<analytics_events, notifications, patients, rooms, threshold,
                   sms_enabled, sms_outbox, now, db_lock, frame, response>>

\* INSERT INTO notifications (...) VALUES (?, 'ready_soon', ?, ?, 'sent'); next patient
NotifyLog(t) ==
    /\ pc[t] = "notify_log"
    /\ db_lock = NoConn
    /\ notifications' =
           notifications (+) SetToBag({NotificationFor(frame[t].patients[frame[t].i])})
    /\ IF frame[t].i < Len(frame[t].patients)
       THEN /\ frame' = [frame EXCEPT ![t].i = @ + 1, ![t].sms_status = NULL]
            /\ pc' = [pc EXCEPT ![t] = "notify_send"]
            /\ UNCHANGED response
       ELSE /\ frame' = [frame EXCEPT ![t] = Idle]
            /\ pc' = [pc EXCEPT ![t] = "idle"]
            /\ response' = [op |-> "check_and_send_notifications"]
    /\ UNCHANGED <<queue_entries, analytics_events, patients, rooms, threshold,
                   sms_enabled, sms_outbox, now, db_lock>>

\* The token generate_token draws, up to renaming: the least one not stored yet.
FreshTokens == IF Tokens \subseteq TokensInUse(queue_entries) THEN {}
               ELSE {CHOOSE t \in Tokens \ TokensInUse(queue_entries) :
                        \A u \in Tokens \ TokensInUse(queue_entries) : t <= u}

\* Inputs a caller may pass: every id stored and one that is not; every position
\* of the waiting range 1..N and one on either side of it.
EntryIdInputs == 1..(Len(queue_entries) + 1)

NewPositionInputs == 0..(Cardinality(WaitingIds(queue_entries)) + 1)

\* The table has room for another row (the model's cap on check-ins).
RoomFor(n) == Len(queue_entries) < n

FirstPatient == CHOOSE p \in 1..NumPatients : \A r \in 1..NumPatients : p <= r

Next ==
    \/ \E token \in FreshTokens : RoomFor(MaxEntries) /\ AddToQueue(FirstPatient, NULL, token)
    \/ \E entry_id \in EntryIdInputs, new_position \in NewPositionInputs :
           UpdateQueuePosition(entry_id, new_position)
    \/ \E entry_id \in EntryIdInputs, status \in Outcomes :
           RemoveFromQueue(entry_id, status)

Spec == Init /\ [][Next]_vars

\* The ledger calls as the reception screen issues them (a waiting entry, a
\* position in 1..N), mixed with the room workflow.
ServingIds(q) == {i \in DOMAIN q : q[i].status = "serving"}

NextRoom ==
    \/ \E token \in FreshTokens : RoomFor(MaxEntries) /\ AddToQueue(FirstPatient, NULL, token)
    \/ \E entry_id \in WaitingIds(queue_entries),
          new_position \in 1..Cardinality(WaitingIds(queue_entries)) :
           UpdateQueuePosition(entry_id, new_position)
    \/ \E entry_id \in WaitingIds(queue_entries), status \in Outcomes :
           RemoveFromQueue(entry_id, status)
    \/ \E entry_id \in WaitingIds(queue_entries), room_id \in rooms :
           ApiAssignRoom(entry_id, room_id)
    \/ \E entry_id \in ServingIds(queue_entries), action \in {"waiting", "complete"} :
           ApiUnassignRoom(entry_id, action)
    \/ \E room_id \in rooms : ApiDeleteRoom(room_id)

SpecRoom == Init /\ [][NextRoom]_vars

\* Overlapping check-ins, nothing else.
NextConcurrentAdd ==
    \/ \E t \in Threads, patient_id \in PatientIds : AddSelect(t, patient_id, NULL)
    \/ \E t \in Threads, token \in FreshTokens : AddInsert(t, token)
    \/ \E t \in Threads : Commit(t)
    \/ \E t \in Threads : Locked(t)

SpecConcurrentAdd == Init /\ [][NextConcurrentAdd]_vars

\* Check-ins one at a time; moves and removes of waiting entries, to positions in
\* 1..N, that overlap each other.
NextConcurrentMove ==
    \/ \E token \in FreshTokens :
           Quiet /\ RoomFor(MaxEntries) /\ AddToQueue(FirstPatient, NULL, token)
    \/ \E t \in Threads, entry_id \in WaitingIds(queue_entries),
          new_position \in 1..Cardinality(WaitingIds(queue_entries)) :
           MoveSelect(t, entry_id, new_position)
    \/ \E t \in Threads : MoveUpdate(t)
    \/ \E t \in Threads, entry_id \in WaitingIds(queue_entries), status \in Outcomes :
           RemoveSelect(t, entry_id, status)
    \/ \E t \in Threads : RemoveUpdate(t)
    \/ \E t \in Threads : Commit(t)
    \/ \E t \in Threads : Locked(t)

SpecConcurrentMove == Init /\ [][NextConcurrentMove]_vars

\* The notification sweep, one run at a time, between the other requests.  The
\* SMS mode is whatever the office configured.
InitNotify ==
    /\ queue_entries = <<>>
    /\ analytics_events = EmptyBag
    /\ notifications = EmptyBag
    /\ patients = 1..NumPatients
    /\ rooms = RoomIds
    /\ threshold = DefaultThreshold
    /\ sms_enabled \in BOOLEAN
    /\ sms_outbox = EmptyBag
    /\ now = 0
    /\ db_lock = NoConn
    /\ pc = [t \in Threads |-> "idle"]
    /\ frame = [t \in Threads |-> Idle]
    /\ response = Idle

FirstRoom == CHOOSE r \in RoomIds : \A x \in RoomIds : r <= x

NextNotify ==
    \/ \E token \in FreshTokens :
           RoomFor(MaxSweepEntries) /\ AddToQueue(FirstPatient, NULL, token)
    \/ \E entry_id \in DOMAIN queue_entries, waiting_outside \in BOOLEAN :
           UpdateWaitingOutside(entry_id, waiting_outside)
    \/ \E entry_id \in WaitingIds(queue_entries),
          new_position \in 1..Cardinality(WaitingIds(queue_entries)) :
           UpdateQueuePosition(entry_id, new_position)
    \/ \E entry_id \in WaitingIds(queue_entries) : MarkCalledIn(entry_id)
    \/ \E entry_id \in WaitingIds(queue_entries) : ApiAssignRoom(entry_id, FirstRoom)
    \/ \E entry_id \in ServingIds(queue_entries) : ApiUnassignRoom(entry_id, "waiting")
    \/ \E order \in Orderings(EligibleIds(queue_entries, patients, threshold)) :
           \E results \in [DOMAIN order -> SmsStatuses] :
               CheckAndSendNotifications(order, results)

SpecNotify == InitNotify /\ [][NextNotify]_vars

\* The eligibility query and the sweep over every stored shape of an entry: the
\* threshold is whatever the settings row holds, a check-in names any patient id
\* (api_checkin passes data['patient_id'] on as it came), entries leave the
\* waiting status through a room.
Thresholds == 1..MaxSweepEntries

InitEligible ==
    /\ queue_entries = <<>>
    /\ analytics_events = EmptyBag
    /\ notifications = EmptyBag
    /\ patients = 1..NumPatients
    /\ rooms = RoomIds
    /\ threshold \in Thresholds
    /\ sms_enabled \in BOOLEAN
    /\ sms_outbox = EmptyBag
    /\ now = 0
    /\ db_lock = NoConn
    /\ pc = [t \in Threads |-> "idle"]
    /\ frame = [t \in Threads |-> Idle]
    /\ response = Idle

NextEligible ==
    \/ \E patient_id \in PatientIds, token \in FreshTokens :
           RoomFor(MaxSweepEntries) /\ AddToQueue(patient_id, NULL, token)
    \/ \E entry_id \in DOMAIN queue_entries, waiting_outside \in BOOLEAN :
           UpdateWaitingOutside(entry_id, waiting_outside)
    \/ \E entry_id \in WaitingIds(queue_entries) : ApiAssignRoom(entry_id, FirstRoom)
    \/ \E order \in Orderings(EligibleIds(queue_entries, patients, threshold)) :
           \E results \in [DOMAIN order -> SmsStatuses] :
               CheckAndSendNotifications(order, results)

SpecEligible == InitEligible /\ [][NextEligible]_vars

\* Every operation that touches an entry after its check-in, one call at a time.
\* generate_token may draw a token not stored yet or one that is.
NextToken ==
    \/ \E token \in FreshTokens \cup TokensInUse(queue_entries) :
           /\ RoomFor(MaxSweepEntries) \/ token \in TokensInUse(queue_entries)
           /\ AddToQueue(FirstPatient, NULL, token)
    \/ \E entry_id \in WaitingIds(queue_entries),
          new_position \in 1..Cardinality(WaitingIds(queue_entries)) :
           UpdateQueuePosition(entry_id, new_position)
    \/ \E entry_id \in WaitingIds(queue_entries), status \in Outcomes :
           RemoveFromQueue(entry_id, status)
    \/ \E entry_id \in WaitingIds(queue_entries) : MarkCalledIn(entry_id)
    \/ \E entry_id \in WaitingIds(queue_entries), waiting_outside \in BOOLEAN :
           UpdateWaitingOutside(entry_id, waiting_outside)
    \/ \E entry_id \in WaitingIds(queue_entries) : ApiAssignRoom(entry_id, FirstRoom)
    \/ \E entry_id \in ServingIds(queue_entries), action \in {"waiting", "complete"} :
           ApiUnassignRoom(entry_id, action)
    \/ \E order \in Orderings(EligibleIds(queue_entries, patients, threshold)) :
           \E results \in [DOMAIN order -> SmsStatuses] :
               CheckAndSendNotifications(order, results)

SpecToken == Init /\ [][NextToken]_vars

\* datetime.now() moves on between calls.
Tick ==
    /\ db_lock = NoConn
    /\ now < MaxTime
    /\ now' = now + 1
    /\ UNCHANGED <<queue_entries, analytics_events, notifications, patients, rooms,
                   threshold, sms_enabled, sms_outbox, db_lock, pc, frame, response>>

\* The calls that change an entry's status or its called_in_at, on any stored
\* entry whatever its status (no handler looks at the status first), with time
\* passing between them.
NextLifecycle ==
    \/ \E token \in FreshTokens :
           RoomFor(MaxSweepEntries) /\ AddToQueue(FirstPatient, NULL, token)
    \/ Tick
    \/ \E entry_id \in DOMAIN queue_entries : MarkCalledIn(entry_id)
    \/ \E entry_id \in DOMAIN queue_entries,
          new_position \in 1..Cardinality(WaitingIds(queue_entries)) :
           UpdateQueuePosition(entry_id, new_position)
    \/ \E entry_id \in DOMAIN queue_entries, status \in Outcomes :
           RemoveFromQueue(entry_id, status)
    \/ \E entry_id \in DOMAIN queue_entries : ApiAssignRoom(entry_id, FirstRoom)
    \/ \E entry_id \in DOMAIN queue_entries, action \in {"waiting", "complete"} :
           ApiUnassignRoom(entry_id, action)
    \/ \E room_id \in rooms : ApiDeleteRoom(room_id)

SpecLifecycle == Init /\ [][NextLifecycle]_vars

\* Check-ins through the endpoint, for a known patient, an unknown patient id or
\* a new patient, between completions, moves and room assignments.
NextCheckin ==
    \/ \E given_patient_id \in PatientIds \cup {NULL}, token \in FreshTokens,
          sms_status \in {"sent", "failed", "mock_sent"} :
           RoomFor(MaxEntries) /\ ApiCheckin(given_patient_id, NULL, token, sms_status)
    \/ \E entry_id \in WaitingIds(queue_entries),
          new_position \in 1..Cardinality(WaitingIds(queue_entries)) :
           UpdateQueuePosition(entry_id, new_position)
    \/ \E entry_id \in WaitingIds(queue_entries) : RemoveFromQueue(entry_id, "completed")
    \/ \E entry_id \in WaitingIds(queue_entries) : ApiAssignRoom(entry_id, FirstRoom)

SpecCheckin == Init /\ [][NextCheckin]_vars

\* The reception endpoints with any entry id a request may carry.
NextApi ==
    \/ \E token \in FreshTokens : RoomFor(MaxEntries) /\ AddToQueue(FirstPatient, NULL, token)
    \/ \E entry_id \in EntryIdInputs, new_position \in NewPositionInputs :
           ApiReorderQueue(entry_id, new_position)
    \/ \E entry_id \in EntryIdInputs : ApiCompleteQueueEntry(entry_id)
    \/ \E entry_id \in EntryIdInputs : ApiNoShow(entry_id)

SpecApi == Init /\ [][NextApi]_vars

\* The ledger calls of the reception screen, any of whose analytics INSERTs may
\* fail.
NextLogFault ==
    \/ \E token \in FreshTokens : RoomFor(MaxEntries) /\ AddToQueue(FirstPatient, NULL, token)
    \/ \E token \in FreshTokens :
           RoomFor(MaxEntries) /\ AddToQueueLogFails(FirstPatient, NULL, token)
    \/ \E entry_id \in WaitingIds(queue_entries),
          new_position \in 1..Cardinality(WaitingIds(queue_entries)) :
           UpdateQueuePosition(entry_id, new_position)
    \/ \E entry_id \in WaitingIds(queue_entries), status \in Outcomes :
           RemoveFromQueue(entry_id, status)
    \/ \E entry_id \in WaitingIds(queue_entries), status \in Outcomes :
           RemoveFromQueueLogFails(entry_id, status)

SpecLogFault == Init /\ [][NextLogFault]_vars

\* The arguments of calculate_wait_time: any integer position, a quote or None.
PositionInputs == (0 - MaxPosition)..MaxPosition
QuoteInputs == {NULL} \cup 0..MaxQuote

\* The wait estimate on its own and as add_to_queue reports it.
NextEstimate ==
    \/ \E position \in PositionInputs, quoted_wait \in QuoteInputs :
           CalculateWaitTime(position, quoted_wait)
    \/ \E token \in FreshTokens, quoted_wait_minutes \in QuoteInputs :
           RoomFor(MaxEntries) /\ AddToQueue(FirstPatient, quoted_wait_minutes, token)

SpecEstimate == Init /\ [][NextEstimate]_vars

\* The ledger calls within their preconditions, one at a time: a move or a
\* removal names a waiting entry, a move names a position in 1..N.
NextValid ==
    \/ \E token \in FreshTokens : RoomFor(MaxEntries) /\ AddToQueue(FirstPatient, NULL, token)
    \/ \E entry_id \in WaitingIds(queue_entries),
          new_position \in 1..Cardinality(WaitingIds(queue_entries)) :
           UpdateQueuePosition(entry_id, new_position)
    \/ \E entry_id \in WaitingIds(queue_entries), status \in Outcomes :
           RemoveFromQueue(entry_id, status)

SpecValid == Init /\ [][NextValid]_vars

\* POST /api/notifications/check served by several request threads at once: the
\* SELECT of a run, each send, each mark_notified and each INSERT INTO
\* notifications are separate steps, and the runs interleave with each other and
\* with check-ins and toggles of waiting_outside.
NextConcurrentNotify ==
    \/ \E token \in FreshTokens :
           RoomFor(MaxSweepEntries) /\ AddToQueue(FirstPatient, NULL, token)
    \/ \E entry_id \in DOMAIN queue_entries, waiting_outside \in BOOLEAN :
           UpdateWaitingOutside(entry_id, waiting_outside)
    \/ \E t \in Threads :
           \E order \in Orderings(EligibleIds(queue_entries, patients, threshold)) :
               NotifySelect(t, order)
    \/ \E t \in Threads, sms_status \in SmsStatuses : NotifySend(t, sms_status)
    \/ \E t \in Threads : NotifyMark(t)
    \/ \E t \in Threads : NotifyLog(t)

SpecConcurrentNotify == InitNotify /\ [][NextConcurrentNotify]_vars

\* Check-ins of one patient through both endpoints, api_checkin statement by
\* statement on several request threads, between completions and the patient's
\* way into a room and back.  A check-in is begun while the table has room for
\* the rows of the check-ins under way.
CheckinsUnderWay == Cardinality({t \in Threads : pc[t] = "checkin_add"})

NextDuplicate ==
    \/ \E t \in Threads :
           /\ Len(queue_entries) + CheckinsUnderWay < MaxEntries
           /\ CheckinCheck(t, FirstPatient)
    \/ \E t \in Threads, token \in FreshTokens, sms_status \in {"sent", "failed", "mock_sent"} :
           CheckinAdd(t, token, sms_status)
    \/ \E token \in FreshTokens :
           /\ Len(queue_entries) + CheckinsUnderWay < MaxEntries
           /\ ApiCheckinAppointment(FirstPatient, token)
    \/ \E entry_id \in WaitingIds(queue_entries) : RemoveFromQueue(entry_id, "completed")
    \/ \E entry_id \in WaitingIds(queue_entries) : ApiAssignRoom(entry_id, FirstRoom)
    \/ \E entry_id \in ServingIds(queue_entries) : ApiUnassignRoom(entry_id, "waiting")

SpecDuplicate == Init /\ [][NextDuplicate]_vars

\* PATCH /api/queue/<entry_id> requests on several request threads, with any
\* mix of the two fields, between check-ins.
NextUpdateEntry ==
    \/ \E token \in FreshTokens :
           RoomFor(MaxSweepEntries) /\ AddToQueue(FirstPatient, NULL, token)
    \/ \E t \in Threads, entry_id \in DOMAIN queue_entries,
          quoted_wait_minutes \in {NULL} \cup 1..MaxQuote, waiting_outside \in {NULL, 0, 1} :
           UpdateEntryWrite(t, entry_id, quoted_wait_minutes, waiting_outside)
    \/ \E t \in Threads : UpdateEntryNested(t)
    \/ \E t \in Threads : UpdateEntryCommit(t)

SpecUpdateEntry == Init /\ [][NextUpdateEntry]_vars

-----------------------------------------------------------------------------
\* Invariant I1: the positions of the waiting entries are exactly 1..N, each once.
Dense(q) ==
    /\ WaitingPositions(q) = 1..Cardinality(WaitingIds(q))
    /\ \A i, j \in WaitingIds(q) : q[i].position = q[j].position => i = j

\* The waiting ids in position order (of a table that satisfies I1).
WaitingOrder(q) ==
    [p \in 1..Cardinality(WaitingIds(q)) |->
        CHOOSE i \in WaitingIds(q) : q[i].position = p]

RemoveAt(s, k) == SubSeq(s, 1, k - 1) \o SubSeq(s, k + 1, Len(s))

InsertAt(s, k, x) == SubSeq(s, 1, k - 1) \o <<x>> \o SubSeq(s, k, Len(s))

Between(p, a, b) == (a <= p /\ p <= b) \/ (b <= p /\ p <= a)

-----------------------------------------------------------------------------
\* C1: after every add_to_queue / update_queue_position / remove_from_queue call,
\* whatever entry id and new_position it was given, the positions of the waiting
\* entries are exactly 1..N.
C1_DenseAfterEveryCall == Dense(queue_entries)

\* C2: invariant I1 across the room workflow: after any mix of check-in, move and
\* remove with api_assign_room, api_unassign_room and api_delete_room, the positions
\* of the waiting entries are exactly 1..N with no duplicates.
C2_DenseAcrossRoomWorkflow ==
    response.op \in {"add_to_queue", "update_queue_position", "remove_from_queue",
                     "api_assign_room", "api_unassign_room", "api_delete_room"}
        => Dense(queue_entries)

\* C3: two add_to_queue calls that overlap give their entries different positions
\* and, once both have committed, leave the waiting positions exactly 1..N.
C3_ConcurrentAddsDense ==
    (Quiet /\ db_lock = NoConn)
        => /\ \A i, j \in DOMAIN queue_entries :
                 queue_entries[i].position = queue_entries[j].position => i = j
           /\ WaitingPositions(queue_entries) = 1..Len(queue_entries)

\* C4: update_queue_position and remove_from_queue calls that overlap on the same
\* queue leave, once both have committed, the waiting positions exactly 1..N.
C4_ConcurrentMovesDense ==
    (Quiet /\ db_lock = NoConn /\ response.op \in {"update_queue_position", "remove_from_queue"})
        => Dense(queue_entries)

\* C5: update_queue_position of a waiting entry to a new_position in 1..N puts the
\* entry at new_position, shifts the waiting entries between the old and the new
\* position by one toward the vacated slot, keeps every other waiting entry where
\* it is, changes nothing when new_position = old_position, and on a dense queue
\* yields the order "take the entry out, re-insert it at index new_position".
C5_MoveIsReinsertion ==
    [][\A entry_id \in WaitingIds(queue_entries),
          new_position \in 1..Cardinality(WaitingIds(queue_entries)) :
        UpdateQueuePosition(entry_id, new_position)
        => LET q == queue_entries
               old == q[entry_id].position
               toward == IF new_position < old THEN 1 ELSE -1
           IN /\ response'.ret = TRUE
              /\ WaitingIds(queue_entries') = WaitingIds(q)
              /\ queue_entries'[entry_id].position = new_position
              /\ \A j \in WaitingIds(q) \ {entry_id} :
                    queue_entries'[j].position =
                        IF q[j].position # old /\ Between(q[j].position, old, new_position)
                        THEN q[j].position + toward
                        ELSE q[j].position
              /\ (new_position = old => queue_entries' = q)
              /\ (Dense(q) =>
                    /\ Dense(queue_entries')
                    /\ WaitingOrder(queue_entries') =
                          InsertAt(RemoveAt(WaitingOrder(q), old), new_position, entry_id))
      ]_vars

\* Scenario B has happened: the last call moved Z (entry 3) from position 3 to
\* position 1, and the order is now Z=1, X=2, Y=3.
C5_Witness ==
    /\ response.op = "update_queue_position"
    /\ response.ret = TRUE
    /\ Len(queue_entries) = 3
    /\ WaitingIds(queue_entries) = {1, 2, 3}
    /\ queue_entries[3].position = 1
    /\ queue_entries[1].position = 2
    /\ queue_entries[2].position = 3

\* C6: remove_from_queue of a waiting entry at position p sets its status to the
\* outcome given and lowers by one the position of exactly the waiting entries
\* behind p; every other position is as it was.
C6_RemoveClosesGap ==
    [][\A entry_id \in EntryIdInputs, status \in Outcomes :
        ( /\ RemoveFromQueue(entry_id, status)
          /\ entry_id \in WaitingIds(queue_entries) )
        => LET q == queue_entries
               p == q[entry_id].position
           IN /\ queue_entries'[entry_id].status = status
              /\ WaitingIds(queue_entries') = WaitingIds(q) \ {entry_id}
              /\ \A j \in DOMAIN q :
                    queue_entries'[j].position =
                        IF j \in WaitingIds(q) \ {entry_id} /\ q[j].position > p
                        THEN q[j].position - 1
                        ELSE q[j].position
      ]_vars

\* Scenario C has happened: X (entry 1) was removed as completed from the order
\* Z=1, X=2, Y=3 and the gap is closed: Z=1, Y=2.
C6_Witness ==
    /\ response.op = "remove_from_queue"
    /\ response.ret = TRUE
    /\ Len(queue_entries) = 3
    /\ queue_entries[1].status = "completed"
    /\ queue_entries[1].position = 2
    /\ WaitingIds(queue_entries) = {2, 3}
    /\ queue_entries[3].position = 1
    /\ queue_entries[2].position = 2

\* C7: add_to_queue stores the new entry at 1 + the largest waiting position (1 when
\* nobody waits), returns that position, and leaves every stored entry as it was;
\* onto a queue whose entries wait at positions 1..k in order it appends k + 1.
C7_AddAppends ==
    [][\A token \in FreshTokens :
        (RoomFor(MaxEntries) /\ AddToQueue(FirstPatient, NULL, token))
        => LET q == queue_entries
               n == Len(q) + 1
               expected == IF \A i \in DOMAIN q : q[i].status # "waiting"
                           THEN 1
                           ELSE 1 + SetMax({q[i].position : i \in WaitingIds(q)})
           IN /\ Len(queue_entries') = n
              /\ queue_entries'[n].position = expected
              /\ queue_entries'[n].status = "waiting"
              /\ response'.position = expected
              /\ response'.id = n
              /\ SubSeq(queue_entries', 1, Len(q)) = q
              /\ ((\A i \in DOMAIN q : q[i].status = "waiting" /\ q[i].position = i)
                    => queue_entries'[n].position = n)
      ]_vars

\* Scenario A has happened: three check-ins into the empty queue, the last one
\* returning position 3.
C7_Witness ==
    /\ response.op = "add_to_queue"
    /\ response.raised = FALSE
    /\ response.position = 3
    /\ response.estimated_wait_minutes = 35
    /\ Len(queue_entries) = 3
    /\ \A i \in 1..3 : queue_entries[i].status = "waiting" /\ queue_entries[i].position = i
    /\ BagCardinality(analytics_events) = 3

\* The number of messages handed to send_sms for queue entry i.
SentFor(i) ==
    LET about == {m \in BagToSet(sms_outbox) : m.queue_entry_id = i}
    IN IF about = {} THEN 0
       ELSE BagCardinality([m \in about |-> CopiesIn(m, sms_outbox)])

\* C8: across any sequence of sweeps run one at a time between toggles of
\* waiting_outside, moves, call-ins, room assignments and releases back to
\* waiting, at most one ready / almost-ready message is ever sent for a queue
\* entry, and its outside_notified flag never goes from 1 back to 0.
C8_NotifiedAtMostOnce ==
    /\ [](\A i \in DOMAIN queue_entries : SentFor(i) <= 1)
    /\ [][\A i \in DOMAIN queue_entries :
            queue_entries[i].outside_notified = 1 => queue_entries'[i].outside_notified = 1
         ]_vars

\* An entry was told "1 patient ahead", was since moved to the front, is waiting
\* outside within the threshold, and the sweep that has just run sent it nothing
\* more.
C8_Witness ==
    /\ response.op = "check_and_send_notifications"
    /\ \E i \in DOMAIN queue_entries :
        /\ queue_entries[i].status = "waiting"
        /\ queue_entries[i].waiting_outside = 1
        /\ queue_entries[i].position = 1
        /\ queue_entries[i].outside_notified = 1
        /\ SentFor(i) = 1
        /\ \E m \in BagToSet(sms_outbox) :
               m.queue_entry_id = i /\ m.kind = "almost_ready" /\ m.patients_ahead = 1

\* The entries the specification says the query returns.
SpecifiedEligible(q, th) ==
    {i \in DOMAIN q :
        /\ q[i].status = "waiting"
        /\ q[i].waiting_outside = 1
        /\ q[i].outside_notified = 0
        /\ q[i].position <= th}

C10_MarkedWhateverTheOutcome ==
    [][\A order \in Orderings(EligibleIds(queue_entries, patients, threshold)) :
         \A results \in [DOMAIN order -> SmsStatuses] :
            CheckAndSendNotifications(order, results)
            => /\ threshold' = threshold
               /\ \A k \in DOMAIN order :
                    /\ queue_entries'[order[k]].outside_notified = 1
                    /\ order[k] \notin EligibleIds(queue_entries', patients', threshold')
                    /\ \E m \in BagToSet(sms_outbox') :
                           m.queue_entry_id = order[k] /\ m.status = results[k]
      ]_vars

\* A sweep has processed an entry whose message failed: the entry is still
\* waiting outside within the threshold, it is marked, and the query leaves it out.
C10_Witness ==
    /\ response.op = "check_and_send_notifications"
    /\ \E i \in DOMAIN queue_entries :
        /\ \E m \in BagToSet(sms_outbox) : m.queue_entry_id = i /\ m.status = "failed"
        /\ queue_entries[i].status = "waiting"
        /\ queue_entries[i].waiting_outside = 1
        /\ queue_entries[i].position <= threshold
        /\ queue_entries[i].outside_notified = 1
        /\ i \notin EligibleIds(queue_entries, patients, threshold)

\* C11: get_queue_entry_by_token(E.token) returns E while E is waiting or
\* serving and None once E is completed, no_show or cancelled; a token of no
\* entry returns None.
C11_TokenResolvesUntilTerminal ==
    /\ \A i \in DOMAIN queue_entries :
          LET found == get_queue_entry_by_token(queue_entries, patients,
                                                queue_entries[i].token)
          IN /\ queue_entries[i].status \in {"waiting", "serving"} => found = i
             /\ queue_entries[i].status \in Outcomes => found = NULL
    /\ \A token \in Tokens \ TokensInUse(queue_entries) :
          get_queue_entry_by_token(queue_entries, patients, token) = NULL

\* C12: the token add_to_queue gives an entry is never changed by a later move,
\* call-in, outside-flag update, notification marking, room assignment or
\* release, or removal, and no two entries ever hold the same token.
C12_TokenImmutableUnique ==
    /\ [](\A i, j \in DOMAIN queue_entries :
            queue_entries[i].token = queue_entries[j].token => i = j)
    /\ [][/\ Len(queue_entries') >= Len(queue_entries)
          /\ \A i \in DOMAIN queue_entries :
                /\ queue_entries[i].token \in Tokens
                /\ queue_entries'[i].token = queue_entries[i].token
         ]_vars

\* Two entries with their tokens: the first was sent outside, notified and then
\* removed, the second was called in, and the check-in that drew a stored token
\* has just been refused.
C12_Witness ==
    /\ Len(queue_entries) = 2
    /\ queue_entries[1].token # queue_entries[2].token
    /\ queue_entries[1].status \in Outcomes
    /\ queue_entries[1].outside_notified = 1
    /\ queue_entries[2].status = "waiting"
    /\ queue_entries[2].called_in_at # NULL
    /\ response.op = "add_to_queue"
    /\ response.raised

\* C13: mark_called_in sets called_in_at only when it is unset: a second
\* mark_called_in on the same entry at a later time leaves called_in_at as the
\* first call wrote it.
C13_CallInIdempotent ==
    [][\A entry_id \in DOMAIN queue_entries :
         (MarkCalledIn(entry_id) /\ queue_entries[entry_id].called_in_at # NULL)
         => queue_entries'[entry_id].called_in_at = queue_entries[entry_id].called_in_at
      ]_vars

\* The row is as the return-to-waiting reset leaves it.
IsReset(row) ==
    /\ row.status = "waiting"
    /\ row.called_in_at = NULL
    /\ row.room_id = NULL
    /\ row.room_entered_at = NULL
    /\ row.vitals_taken = 0
    /\ row.dr_visited = 0
    /\ row.waiting_rx = 0
    /\ row.custom_status = NULL

\* C14: once an entry's called_in_at is set, no operation clears or overwrites
\* it except the return-to-waiting reset, which clears called_in_at, room_id,
\* room_entered_at, vitals_taken, dr_visited, waiting_rx and custom_status
\* together and sets status to 'waiting'.
C14_CalledInKeptUnlessReset ==
    [][\A i \in DOMAIN queue_entries :
         queue_entries[i].called_in_at # NULL
         => \/ queue_entries'[i].called_in_at = queue_entries[i].called_in_at
            \/ IsReset(queue_entries'[i])
      ]_vars

\* C15: every entry whose status is completed, no_show or cancelled has a
\* non-null called_in_at, whichever operation made it terminal.
C15_TerminalHasCalledIn ==
    \A i \in DOMAIN queue_entries :
        queue_entries[i].status \in Outcomes => queue_entries[i].called_in_at # NULL

\* C16: once an entry's status is completed, no_show or cancelled, no operation
\* changes its status again.
C16_TerminalAbsorbing ==
    [][\A i \in DOMAIN queue_entries :
         queue_entries[i].status \in Outcomes
         => queue_entries'[i].status = queue_entries[i].status
      ]_vars

\* C17: api_checkin fails with an error and creates no queue entry when the
\* patient already has an entry with status 'waiting'; the existing entries and
\* the analytics log are unchanged.
C17_DuplicateCheckinRefused ==
    [][\A patient_id \in PatientIds, token \in FreshTokens,
          sms_status \in {"sent", "failed", "mock_sent"} :
         (/\ ApiCheckin(patient_id, NULL, token, sms_status)
          /\ \E i \in WaitingIds(queue_entries) : queue_entries[i].patient_id = patient_id)
         => /\ response'.success = FALSE
            /\ response'.code = 400
            /\ queue_entries' = queue_entries
            /\ analytics_events' = analytics_events
            /\ sms_outbox' = sms_outbox
      ]_vars

\* The first patient, waiting at position 2 behind a later arrival after a move,
\* has just been refused a second check-in.
C17_Witness ==
    /\ response.op = "api_checkin"
    /\ response.success = FALSE
    /\ response.code = 400
    /\ Len(queue_entries) = 2
    /\ queue_entries[1].patient_id = FirstPatient
    /\ queue_entries[1].status = "waiting"
    /\ queue_entries[1].position = 2
    /\ queue_entries[2].patient_id # FirstPatient
    /\ queue_entries[2].status = "waiting"

\* C18: update_queue_position fails and changes no entry when entry_id is an
\* entry that exists but is not waiting (serving, completed, no_show, cancelled).
C18_MoveOfNonWaitingRefused ==
    [][\A entry_id \in DOMAIN queue_entries :
         \A new_position \in 1..Cardinality(WaitingIds(queue_entries)) :
            (/\ UpdateQueuePosition(entry_id, new_position)
             /\ queue_entries[entry_id].status # "waiting")
            => /\ response'.ret = FALSE
               /\ queue_entries' = queue_entries
      ]_vars

\* C19: update_queue_position and remove_from_queue called with an id that
\* matches no entry return False and leave every entry (position, status,
\* timestamps) and the analytics log unchanged.
C19_MissingIdFailsFast ==
    [][\A entry_id \in EntryIdInputs \ DOMAIN queue_entries :
         /\ \A new_position \in NewPositionInputs :
               UpdateQueuePosition(entry_id, new_position)
               => /\ response'.ret = FALSE
                  /\ queue_entries' = queue_entries
                  /\ analytics_events' = analytics_events
         /\ \A status \in Outcomes :
               RemoveFromQueue(entry_id, status)
               => /\ response'.ret = FALSE
                  /\ queue_entries' = queue_entries
                  /\ analytics_events' = analytics_events
      ]_vars

\* A remove of an id past the last row has just returned False, with two
\* entries waiting at positions 1 and 2 and only their check-ins in the log.
C19_Witness ==
    /\ response.op = "remove_from_queue"
    /\ response.ret = FALSE
    /\ Len(queue_entries) = 2
    /\ \A i \in 1..2 : queue_entries[i].status = "waiting" /\ queue_entries[i].position = i
    /\ BagCardinality(analytics_events) = 2

\* C20: api_reorder_queue, api_complete_queue_entry and api_no_show report
\* success only when the ledger operation succeeded: for an id that matches no
\* entry the caller receives a failure response.
C20_CallersReportFailure ==
    [][\A entry_id \in EntryIdInputs \ DOMAIN queue_entries :
         /\ \A new_position \in NewPositionInputs :
               ApiReorderQueue(entry_id, new_position) => response'.success = FALSE
         /\ ApiCompleteQueueEntry(entry_id) => response'.success = FALSE
         /\ ApiNoShow(entry_id) => response'.success = FALSE
      ]_vars

\* C21: when the analytics_events insert fails during add_to_queue or
\* remove_from_queue, the primary operation still takes effect (the entry is
\* created; the entry is made terminal and the entries behind it are shifted)
\* and is not reported as failed.
C21_LogFailureDoesNotBlock ==
    [][/\ \A token \in FreshTokens :
             AddToQueueLogFails(FirstPatient, NULL, token)
             => /\ queue_entries' = InsertEntry(queue_entries, FirstPatient,
                                                NextPosition(queue_entries), token, NULL, now)
                /\ ~response'.raised
       /\ \A entry_id \in WaitingIds(queue_entries), status \in Outcomes :
             RemoveFromQueueLogFails(entry_id, status)
             => /\ queue_entries' = RemoveWrites(queue_entries, entry_id,
                                                 queue_entries[entry_id].position, status, now)
                /\ ~response'.raised
      ]_vars

\* C22: without a quote, calculate_wait_time(position) is
\* max(0, (position - 1) * 15 + 5) for every integer position (5, 20 and 35 at
\* positions 1, 2 and 3), and the estimated_wait_minutes add_to_queue returns
\* is that value at the position it assigned.
C22_DefaultEstimate ==
    /\ (response.op = "calculate_wait_time" /\ response.quoted_wait = NULL)
       => /\ response.ret = Max(0, (response.position - 1) * 15 + 5)
          /\ response.position = 1 => response.ret = 5
          /\ response.position = 2 => response.ret = 20
          /\ response.position = 3 => response.ret = 35
    /\ (/\ response.op = "add_to_queue"
        /\ ~response.raised
        /\ queue_entries[response.id].quoted_wait_minutes = NULL)
       => /\ response.position = queue_entries[response.id].position
          /\ response.estimated_wait_minutes = Max(0, (response.position - 1) * 15 + 5)

C22_Witness ==
    \/ /\ response.op = "calculate_wait_time"
       /\ response.quoted_wait = NULL
       /\ response.position = 3
       /\ response.ret = 35
    \/ /\ response.op = "calculate_wait_time"
       /\ response.quoted_wait = NULL
       /\ response.position < 0
       /\ response.ret = 0

\* C23: calculate_wait_time(position, q) returns q for every quote q that is
\* not None, q = 0 included.
C23_QuoteWinsEvenZero ==
    (response.op = "calculate_wait_time" /\ response.quoted_wait # NULL)
    => response.ret = response.quoted_wait

\* C24: update_waiting_outside changes only the waiting_outside flag of the
\* entry it addresses: that entry's position, status, outside_notified,
\* called_in_at, token and every other column stay as they were, and no other
\* entry is touched.
C24_OutsideToggleFrame ==
    [][\A entry_id \in DOMAIN queue_entries, waiting_outside \in BOOLEAN :
           UpdateWaitingOutside(entry_id, waiting_outside)
           => /\ DOMAIN queue_entries' = DOMAIN queue_entries
              /\ \A i \in DOMAIN queue_entries :
                     i # entry_id => queue_entries'[i] = queue_entries[i]
              /\ queue_entries'[entry_id].waiting_outside = (IF waiting_outside THEN 1 ELSE 0)
              /\ \A col \in DOMAIN queue_entries[entry_id] \ {"waiting_outside"} :
                     queue_entries'[entry_id][col] = queue_entries[entry_id][col]
      ]_vars

C24_Witness ==
    /\ response.op = "update_waiting_outside"
    /\ Len(queue_entries) = 2
    /\ \E i \in DOMAIN queue_entries :
           /\ queue_entries[i].outside_notified = 1
           /\ queue_entries[i].waiting_outside = 0
    /\ \E j \in DOMAIN queue_entries : queue_entries[j].waiting_outside = 1

\* C25: starting from the empty queue, when the calls do not overlap, every move
\* and removal names a waiting entry and every new_position lies in 1..N, the
\* positions of the waiting entries are exactly 1..N, each once, after each call.
C25_DenseWithinPreconditions ==
    /\ Cardinality(WaitingPositions(queue_entries)) = Cardinality(WaitingIds(queue_entries))
    /\ \A p \in 1..Cardinality(WaitingIds(queue_entries)) :
           \E i \in WaitingIds(queue_entries) : queue_entries[i].position = p

C25_Witness ==
    /\ response.op = "update_queue_position"
    /\ Len(queue_entries) = MaxEntries
    /\ Cardinality(WaitingIds(queue_entries)) = 2
    /\ queue_entries[Len(queue_entries)].status = "waiting"
    /\ queue_entries[Len(queue_entries)].position = 1

\* C26: update_queue_position checks no bounds: a move of a waiting entry to a
\* new_position below 1 or above N is applied, not refused, and leaves the
\* positions of the waiting entries different from 1..N.
C26_OutOfRangeMoveApplied ==
    [][\A entry_id \in WaitingIds(queue_entries) :
           \A new_position \in NewPositionInputs \ (1..Cardinality(WaitingIds(queue_entries))) :
               UpdateQueuePosition(entry_id, new_position)
               => /\ response'.ret
                  /\ queue_entries'[entry_id].status = "waiting"
                  /\ queue_entries'[entry_id].position = new_position
                  /\ ~Dense(queue_entries')
      ]_vars

C26_Witness ==
    /\ response.op = "update_queue_position"
    /\ response.ret
    /\ Cardinality(WaitingIds(queue_entries)) = 2
    /\ WaitingPositions(queue_entries) \in {{0, 2}, {1, 3}}

\* C27: remove_from_queue on an entry that is not waiting (completed, no_show,
\* cancelled or serving) is a no-op for the ledger: every waiting entry keeps
\* its position.
C27_RemoveOfNonWaitingKeepsLedger ==
    [][\A entry_id \in DOMAIN queue_entries \ WaitingIds(queue_entries), status \in Outcomes :
           RemoveFromQueue(entry_id, status)
           => \A i \in WaitingIds(queue_entries) :
                  /\ queue_entries'[i].status = "waiting"
                  /\ queue_entries'[i].position = queue_entries[i].position
      ]_vars

\* C28: the at-most-one-notification-per-entry guarantee also holds when two
\* check_and_send_notifications runs overlap: no interleaving of their
\* read-eligible, send and mark_notified steps sends two notifications for the
\* same queue entry.
C28_OverlappingSweepsSendOnce ==
    \A i \in DOMAIN queue_entries : SentFor(i) <= 1

\* C28, amended: overlapping runs may each have selected an entry before any of
\* them marks it, and each of them then sends to it; an entry is sent at most
\* one message per run in flight (NumThreads in all), a run never selects an
\* entry whose outside_notified is already 1, and the flag never goes from 1
\* back to 0.
C28_OnePerOverlappingRun ==
    /\ [](\A i \in DOMAIN queue_entries : SentFor(i) <= NumThreads)
    /\ [][/\ \A t \in Threads :
               (pc[t] = "idle" /\ pc'[t] = "notify_send")
               => \A k \in DOMAIN frame'[t].patients :
                      queue_entries[frame'[t].patients[k].id].outside_notified = 0
          /\ \A i \in DOMAIN queue_entries :
               queue_entries[i].outside_notified = 1 => queue_entries'[i].outside_notified = 1
         ]_vars

\* Two runs that overlapped have both finished and an entry holds two messages.
C28_Witness ==
    /\ \A t \in Threads : pc[t] = "idle"
    /\ response.op = "check_and_send_notifications"
    /\ \E i \in DOMAIN queue_entries :
           /\ queue_entries[i].outside_notified = 1
           /\ SentFor(i) = 2

\* C29: no patient ever has two entries with status 'waiting' at the same time,
\* under any sequence or interleaving of api_checkin, api_checkin_appointment,
\* removal, room assignment and room release back to waiting.
C29_OneWaitingEntryPerPatient ==
    \A i, j \in WaitingIds(queue_entries) :
        queue_entries[i].patient_id = queue_entries[j].patient_id => i = j

\* C30: api_update_queue_entry on a request that carries quoted_wait_minutes
\* together with waiting_outside completes and commits every field it was
\* given: the uncommitted write on the handler's own connection does not block
\* the nested update_waiting_outside call.
C30_NestedUpdateCommits ==
    [][\A t \in Threads :
           (/\ pc[t] = "update_nested"
            /\ pc'[t] = "idle"
            /\ frame[t].quoted_wait_minutes # NULL
            /\ frame[t].waiting_outside # NULL)
           => /\ response'.success
              /\ queue_entries'[frame[t].entry_id].quoted_wait_minutes
                     = frame[t].quoted_wait_minutes
              /\ queue_entries'[frame[t].entry_id].waiting_outside
                     = frame[t].waiting_outside
      ]_vars

====
